---- MODULE Spec2Model ----
(***************************************************************************)
(* PortfoRadar ingestion pipeline: KkrClient (paginated fetch with the     *)
(* accumulation loop), company.mapper (identity, content hash, DTO),       *)
(* CompaniesRepository.upsertCompany, IngestionRunRepository and           *)
(* PortfolioIngestService.ingestAll.                                       *)
(*                                                                         *)
(* Strings are sequences of one-character strings.  Every await of the     *)
(* code is one step of a process; a store operation either takes effect    *)
(* and returns, or throws without any effect.  SHA-256 is taken to be      *)
(* collision free: a hash is modelled by the text it is computed from.     *)
(***************************************************************************)
EXTENDS Integers, Sequences, FiniteSets, TLC

\* ------------------------------------------------------------------ bounds
\* Entities the upstream source may hold at once.
MaxEntities == 2
\* Failures injected in one behaviour: store operations (MongoDB calls) that
\* throw, and fetchPage calls that fail (retries exhausted, 429, success=false).
MaxFaults == 1
\* Times the upstream may change an entity's content.
MaxSrcChanges == 1
\* addError calls made on one run.
MaxAddErrors == 12

\* Admin keys generated, and how far the clock of AdminKeyService runs.
MaxKeys == 1

MaxClock == 2
\* The pages the upstream reports (`pages` of every response).
NumPages == 2

\* ------------------------------------------------------- program constants
\* DEFAULT_CONFIG.maxAccumulationAttempts
maxAccumulationAttempts == 5
\* $slice: -10 of IngestionRunRepository.addError
errorCap == 10
\* DEFAULT_CONFIG.maxRetries, passed to p-retry as retries.
maxRetries == 3

Procs == {1, 2}

\* ----------------------------------------------------------------- strings
\* JavaScript undefined (a missing optional field).
Undefined == <<"undefined">>
\* A non-string value in a field declared string (the API is duck typed).
NotAString == <<"number">>

IsString(s) == s # Undefined /\ s # NotAString

Lower(c) == CASE c = "A" -> "a" [] c = "B" -> "b" [] c = "X" -> "x" [] OTHER -> c

\* String.prototype.toLowerCase
ToLowerCase(s) == [i \in 1..Len(s) |-> Lower(s[i])]

RECURSIVE TrimLeft(_)
TrimLeft(s) == IF s # <<>> /\ Head(s) = " " THEN TrimLeft(Tail(s)) ELSE s

RECURSIVE TrimRight(_)
TrimRight(s) ==
    IF s # <<>> /\ s[Len(s)] = " " THEN TrimRight(SubSeq(s, 1, Len(s) - 1)) ELSE s

\* String.prototype.trim
Trim(s) == TrimRight(TrimLeft(s))

StartsWith(s, pre) == Len(s) >= Len(pre) /\ SubSeq(s, 1, Len(pre)) = pre

\* JavaScript truthiness of a string-or-undefined value.
Truthy(s) == s # Undefined /\ s # <<>>

\* x || undefined
OrUndefined(s) == IF Truthy(s) THEN s ELSE Undefined

\* x || ''
OrEmpty(s) == IF Truthy(s) THEN s ELSE <<>>

\* ------------------------------------------------------------------ mapper
\* getCompanyIdKey: `${name.toLowerCase().trim()}|${(hq ?? '').toLowerCase().trim()}`
getCompanyIdKey(raw) ==
    Trim(ToLowerCase(raw.name)) \o <<"|">>
        \o Trim(ToLowerCase(IF raw.hq = Undefined THEN <<>> ELSE raw.hq))

\* An id of name, hq and industry (an approach the mapper's header says was
\* given up), against which generateCompanyId is told apart.
generateCompanyIdWithIndustry(raw) ==
    Trim(ToLowerCase(raw.name)) \o <<"|">> \o raw.industry

\* generateCompanyId: sha256 of the joined key parts (collision free).
generateCompanyId(raw) == getCompanyIdKey(raw)

\* raw[f] in JavaScript: undefined when the object has no property f.
Field(raw, f) == IF f \in DOMAIN raw THEN raw[f] ELSE Undefined

\* The fields generateContentHash reads as they are, and those it reads
\* with || ''.
HashedAsIs == {"name", "assetClass", "industry", "region"}
HashedOrEmpty ==
    {"description", "url", "hq", "yoi", "logo", "relatedLinkOne",
     "relatedLinkOneTitle", "relatedLinkTwo", "relatedLinkTwoTitle"}

\* A fingerprint of the name and the headquarters only, against which
\* generateContentHash is told apart.
generateContentHashOfIdentity(raw) ==
    [f \in {"name", "hq"} |-> OrEmpty(Field(raw, f))]

\* generateContentHash: sha256 (collision free) of the JSON of the business
\* fields; JSON.stringify leaves out a key whose value is undefined.
generateContentHash(raw) ==
    [f \in {g \in HashedAsIs : Field(raw, g) # Undefined} \cup HashedOrEmpty |->
        IF f \in HashedAsIs THEN raw[f] ELSE OrEmpty(Field(raw, f))]

https == <<"h", "t", "t", "p", "s", ":", "/", "/">>
http == <<"h", "t", "t", "p", ":", "/", "/">>

\* normalizeUrl
normalizeUrl(url) ==
    IF ~Truthy(url) \/ Trim(url) = <<>> THEN Undefined
    ELSE IF StartsWith(Trim(url), http) \/ StartsWith(Trim(url), https) THEN Trim(url)
    ELSE https \o Trim(url)

RECURSIVE SplitComma(_, _)
SplitComma(s, cur) ==
    IF s = <<>> THEN <<cur>>
    ELSE IF Head(s) = "," THEN <<cur>> \o SplitComma(Tail(s), <<>>)
    ELSE SplitComma(Tail(s), Append(cur, Head(s)))

\* splitAssetClasses: split(','), trim each, drop the empty ones.
splitAssetClasses(assetClassRaw) ==
    IF ~Truthy(assetClassRaw) THEN <<>>
    ELSE SelectSeq([i \in 1..Len(SplitComma(assetClassRaw, <<>>)) |->
                       Trim(SplitComma(assetClassRaw, <<>>)[i])],
                   LAMBDA x : x # <<>>)

\* Whether mapRawToCompanyDto throws a TypeError on raw: a method of String
\* is called on a value that is not a string.
mapThrows(raw) ==
    \/ ~IsString(raw.name)
    \/ raw.hq = NotAString
    \/ raw.assetClass = NotAString
    \/ raw.url = NotAString

\* mapRawToCompanyDto; fetchedAt is the `new Date()` of the call.
mapRawToCompanyDto(raw, fetchedAt) ==
    [companyId |-> generateCompanyId(raw),
     contentHash |-> generateContentHash(raw),
     name |-> raw.name,
     nameSort |-> ToLowerCase(raw.name),
     assetClassRaw |-> raw.assetClass,
     assetClasses |-> splitAssetClasses(raw.assetClass),
     industry |-> raw.industry,
     website |-> normalizeUrl(raw.url),
     headquarters |-> OrUndefined(raw.hq),
     fetchedAt |-> fetchedAt]

\* ------------------------------------------------------- upstream content
Raw(name, hq, industry, url, assetClass) ==
    [name |-> name, hq |-> hq, industry |-> industry, url |-> url,
     assetClass |-> assetClass]

\* Entity a|x, and the same entity after the upstream changed every field
\* but the identity (name and hq differ only in case and outer blanks).
RawA == Raw(<<"a">>, <<"x">>, <<"i", "1">>, <<"u">>, <<"p", ",", "q">>)
RawAChanged == Raw(<<"A", " ">>, <<" ", "x">>, <<"i", "2">>, <<>>, <<"p">>)
\* Entity a|y: the name of a|x with another headquarters.
RawA2 == Raw(<<"a">>, <<"y">>, <<"i", "1">>, <<"u">>, <<"p">>)
\* Entity b|x, well formed and malformed in three ways.
RawB == Raw(<<"b">>, <<"x">>, <<"i", "1">>, <<>>, <<"p">>)
RawBBadAsset == Raw(<<"b">>, <<"x">>, <<"i", "1">>, <<>>, NotAString)
RawBBadHq == Raw(<<"b">>, NotAString, <<"i", "1">>, <<>>, <<"p">>)
RawNoName == Raw(Undefined, <<"x">>, <<"i", "1">>, <<>>, <<"p">>)

\* The upstream holds at most one form of each entity, in the API's order.
Slot1 == {<<>>, <<RawA>>}
Slot2 == {<<>>, <<RawA2>>}
Slot3 == {<<>>, <<RawB>>, <<RawBBadAsset>>, <<RawBBadHq>>, <<RawNoName>>}

SrcChoices ==
    {s \in {a \o b \o c : a \in Slot1, b \in Slot2, c \in Slot3} :
        Len(s) <= MaxEntities}

\* The content an entity has after the upstream edited it.
ChangedForm(raw) == IF raw = RawA THEN RawAChanged ELSE raw

\* The sublists of a list, order kept: what one page request may return
\* (the CDN serves any subset of the entities on any request).
RECURSIVE SubLists(_)
SubLists(s) ==
    IF s = <<>> THEN {<<>>}
    ELSE SubLists(Tail(s)) \cup {<<Head(s)>> \o t : t \in SubLists(Tail(s))}

Range(s) == {s[i] : i \in 1..Len(s)}

\* ---------------------------------------------------- companies collection
\* A collection is the sequence of its documents in insertion order.
\* A findOne that never matches, against which FindOne is told apart.
FindOneNever(coll, companyId) == <<>>

\* Model.findOne({companyId}): the first match, as <<doc>>, or <<>> for null.
FindOne(coll, companyId) ==
    LET hits == SelectSeq(coll, LAMBDA d : d.companyId = companyId)
    IN  IF hits = <<>> THEN <<>> ELSE <<Head(hits)>>

\* A collection without the unique index, against which UniqueIndexAllows is
\* told apart.
UniqueIndexAllowsAll(coll, companyId) == TRUE

\* The unique index on Company.companyId: whether an insert is accepted.
UniqueIndexAllows(coll, companyId) ==
    \A i \in 1..Len(coll) : coll[i].companyId # companyId

DtoFields ==
    {"companyId", "contentHash", "name", "nameSort", "assetClassRaw",
     "assetClasses", "industry", "website", "headquarters", "fetchedAt"}

\* Model.create(dto) with timestamps: true.
NewDoc(dto, t) ==
    [f \in DtoFields \cup {"createdAt", "updatedAt"} |->
        IF f \in DtoFields THEN dto[f] ELSE t]

\* Model.updateOne(filter, dto) on the matched document: the update is a
\* $set of the keys of dto that are not undefined (Mongoose strips undefined
\* keys from an update), and timestamps: true sets updatedAt.
\* Only these keys of a dto can be undefined.
OptionalFields == {"website", "headquarters"}

SetFields(doc, dto, t) ==
    [f \in DOMAIN doc |->
        IF f = "updatedAt" THEN t
        ELSE IF f = "createdAt" THEN doc[f]
        ELSE IF f \in OptionalFields /\ dto[f] = Undefined THEN doc[f]
        ELSE dto[f]]

RECURSIVE UpdateFirst(_, _, _, _)
UpdateFirst(coll, companyId, dto, t) ==
    IF coll = <<>> THEN <<>>
    ELSE IF Head(coll).companyId = companyId
         THEN <<SetFields(Head(coll), dto, t)>> \o Tail(coll)
         ELSE <<Head(coll)>> \o UpdateFirst(Tail(coll), companyId, dto, t)

\* Model.countDocuments()
countAll(coll) == Len(coll)

\* --------------------------------------------------- ingestion_runs collection
ZeroCounts == [fetched |-> 0, created |-> 0, updated |-> 0, failed |-> 0]

\* IngestionRunRepository.create; finishedAt = 0 stands for "not set".
NewRun(runId, t) ==
    [runId |-> runId, startedAt |-> t, finishedAt |-> 0, status |-> "running",
     counts |-> ZeroCounts, errorMessages |-> <<>>,
     sourceMeta |-> [totalFromSource |-> 0, pagesFromSource |-> 0]]

\* An update that leaves finishedAt alone, against which UpdatedRun is told
\* apart.
UpdatedRunNoFinishedAt(run, dto) ==
    [run EXCEPT !.status = dto.status, !.counts = dto.counts]

\* IngestionRunRepository.update: $set of status, finishedAt, counts.* and
\* sourceMeta.totalFromSource / pagesFromSource.
UpdatedRun(run, dto) ==
    [run EXCEPT !.status = dto.status, !.finishedAt = dto.finishedAt,
                !.counts = dto.counts,
                !.sourceMeta = [totalFromSource |-> dto.sourceMeta.totalFromSource,
                                pagesFromSource |-> dto.sourceMeta.pagesFromSource]]

\* A list that keeps its first entries, against which PushSlice is told
\* apart.
PushKeepFirst(msgs, m) ==
    IF Len(msgs) < errorCap THEN Append(msgs, m) ELSE msgs

\* $push with $each: [m], $slice: -10.
PushSlice(msgs, m) ==
    LET all == Append(msgs, m)
    IN  IF Len(all) <= errorCap THEN all
        ELSE SubSeq(all, Len(all) - errorCap + 1, Len(all))

\* IngestionRunRepository.addError
RunWithError(run, m) == [run EXCEPT !.errorMessages = PushSlice(@, m)]

\* ------------------------------------------------------------ accumulator
\* The accumulator is a Map in insertion order; its key is a function of the
\* value, so the Map is the sequence of its values.
\* const key = company.name.toLowerCase().trim()
AccKey(company) == Trim(ToLowerCase(company.name))

\* A Map that never has a key, against which AccHas is told apart.
AccHasNever(acc, company) == FALSE

\* accumulated.has(key)
AccHas(acc, company) ==
    \E i \in 1..Len(acc) : AccKey(acc[i]) = AccKey(company)

\* The merge loop over one page's companies. A company whose name is not a
\* string throws a TypeError at its turn; the ones before it are merged.
RECURSIVE MergePage(_, _)
MergePage(acc, page) ==
    IF page = <<>> THEN [acc |-> acc, threw |-> FALSE]
    ELSE IF ~IsString(Head(page).name) THEN [acc |-> acc, threw |-> TRUE]
    ELSE MergePage(IF AccHas(acc, Head(page)) THEN acc ELSE Append(acc, Head(page)),
                   Tail(page))

\* A strict comparison, against which Converged is told apart.
ConvergedStrict(size, totalHits) == size > totalHits

\* if (accumulated.size >= totalHits) break;
Converged(size, totalHits) == size >= totalHits

\* ------------------------------------------------------------ orchestrator
\* generateCompanyId throws a TypeError on these.
idThrows(raw) == ~IsString(raw.name) \/ raw.hq = NotAString

\* deduplicateCompanies: the first occurrence of each companyId, in order.
RECURSIVE deduplicateCompanies(_, _)
deduplicateCompanies(companiesIn, map) ==
    IF companiesIn = <<>> THEN map
    ELSE deduplicateCompanies(
            Tail(companiesIn),
            IF \E i \in 1..Len(map) :
                   generateCompanyId(map[i]) = generateCompanyId(Head(companiesIn))
            THEN map ELSE Append(map, Head(companiesIn)))

dedupeThrows(companiesIn) == \E i \in 1..Len(companiesIn) : idThrows(companiesIn[i])

\* A strict comparison, against which IsComplete is told apart.
IsCompleteStrict(fetched, totalFromSource) == fetched > totalFromSource

\* const isComplete = counts.fetched >= totalFromSource;
IsComplete(fetched, totalFromSource) == fetched >= totalFromSource

\* ------------------------------------------------------------------- state
VARIABLES
    companies,    \* the companies collection
    runs,         \* the ingestion_runs collection; the run with runId r is runs[r]
    src,          \* the upstream's entities, in the API's order
    edge,         \* "varying": the CDN serves any subset of the entities on a
                  \* request; "steady": it serves page n as the API holds it
    now,          \* the clock: it ticks at each invocation of ingestAll
    pc,           \* pc[p]: where invocation p of ingestAll stands
    client,       \* client[p]: the locals of fetchAllPages
    ing,          \* ing[p]: the locals of ingestAll
    result,       \* result[p]: <<>>, or <<r>> once ingestAll returned r
    faults,       \* store operations and fetchPage calls that failed so far
    srcChanges,   \* upstream edits so far
    lastUpsert,   \* history: <<>>, or <<u>> for the last ended upsertCompany call
    aud           \* history: aud[p], what happened to invocation p

\* The state of ingestAll and of what it calls.
ingestVars == <<companies, runs, src, edge, now, pc, client, ing, result, faults,
                srcChanges, lastUpsert, aud>>

\* The state of the units studied on their own, outside a run of ingestAll.
VARIABLES
    fp            \* one call of KkrClient.fetchPage, HTTP attempt by HTTP attempt

VARIABLES
    mp            \* two raw records and what the mapper's functions give on them

VARIABLES
    errLog        \* history: the messages passed to addError, in call order

VARIABLES
    ak            \* the admin_keys collection, the clock of AdminKeyService and
                  \* the calls of validateKey and revokeKey

VARIABLES
    pg            \* one call of KkrClient.fetchAllPages, request by request

unitVars == <<fp, mp, errLog, ak, pg>>

vars == <<ingestVars, unitVars>>

\* No fetchPage call is under way.
IdleFetch == [pc |-> "idle", page |-> 0, responses |-> <<>>, error |-> <<>>]

\* The mapper's functions are not under study.
IdleMap == [pc |-> "idle"]

\* No admin key was generated, no call of AdminKeyService was made, no
\* request came to AdminApiKeyGuard.
IdleKeys ==
    [adminKeys |-> <<>>, clock |-> 1, validating |-> <<>>,
     lastValidate |-> <<>>, lastRevoke |-> <<>>, revokedOk |-> {},
     guard |-> <<>>, lastGuard |-> <<>>]

\* fetchAllPages was not called.
IdlePass ==
    [pc |-> "idle", attempt |-> 0, pageNum |-> 0, totalHits |-> 0, totalPages |-> 0,
     size |-> 0, inflight |-> {}, settled |-> {}, issued |-> <<>>]

UnitInit ==
    /\ fp = IdleFetch
    /\ mp = IdleMap
    /\ errLog = <<>>
    /\ ak = IdleKeys
    /\ pg = IdlePass

InitClient ==
    [accumulated |-> <<>>, totalHits |-> 0, totalPages |-> 0, attempt |-> 0,
     pageNum |-> 0]

InitIng(runId) ==
    [runId |-> runId, counts |-> ZeroCounts, totalFromSource |-> 0,
     pagesFromSource |-> 0, accumulationAttempts |-> 0, uniqueThisRun |-> 0,
     todo |-> <<>>, dto |-> <<>>, existingDoc |-> <<>>]

\* served: the companies the pages of the running fetchAllPages call held;
\* servedAll, servedBad: once fetchAllPages ended, whether they were all the
\* upstream's entities, and how many of them mapRawToCompanyDto throws on.
\* runId: the run the invocation created (0: none). pageFaults, mapFaults,
\* upsertFaults, repoFaults: its fetchPage, mapRawToCompanyDto, upsertCompany
\* and runRepo calls that threw. upserted: its upsertCompany calls that
\* returned. sent: the dtos it passed to upsertCompany. srcAtStart,
\* startedAfter: the upstream's edits and the ended invocations at its start.
InitAud ==
    [runId |-> 0, served |-> {}, servedAll |-> FALSE, servedBad |-> 0,
     pageFaults |-> 0, mapFaults |-> 0, upsertFaults |-> 0, repoFaults |-> 0,
     upserted |-> 0, sent |-> {}, srcAtStart |-> 0, startedAfter |-> {}]

\* The history of a fetchAllPages call that ended.
FetchEnded(a) ==
    [a EXCEPT !.served = {},
              !.servedAll = Range(src) \subseteq a.served,
              !.servedBad = Cardinality({r \in a.served : mapThrows(r)})]

Init ==
    /\ UnitInit
    /\ companies = <<>>
    /\ runs = <<>>
    /\ src \in SrcChoices
    /\ edge = "varying"
    /\ now = 0
    /\ pc = [p \in Procs |-> "idle"]
    /\ client = [p \in Procs |-> InitClient]
    /\ ing = [p \in Procs |-> InitIng(0)]
    /\ result = [p \in Procs |-> <<>>]
    /\ faults = 0
    /\ srcChanges = 0
    /\ lastUpsert = <<>>
    /\ aud = [p \in Procs |-> InitAud]

Ended(p) == pc[p] \in {"done", "thrown"}

\* A store operation throws (the database is unreachable).
StoreThrows ==
    /\ faults < MaxFaults
    /\ faults' = faults + 1

\* A fetchPage call fails.
PageFails ==
    /\ faults < MaxFaults
    /\ faults' = faults + 1

\* ------------------------------------------------------------- the upstream
\* What a successful request for page n may hold. A steady upstream pages its
\* entities one by page.
Pages(n) ==
    IF edge = "steady"
    THEN {IF n <= Len(src) THEN <<src[n]>> ELSE <<>>}
    ELSE SubLists(src)

\* The upstream edits an entity.
SourceChange ==
    /\ srcChanges < MaxSrcChanges
    /\ \E i \in 1..Len(src) :
          /\ ChangedForm(src[i]) # src[i]
          /\ src' = [src EXCEPT ![i] = ChangedForm(src[i])]
    /\ srcChanges' = srcChanges + 1
    /\ UNCHANGED unitVars
    /\ UNCHANGED <<companies, runs, edge, now, pc, client, ing, result, faults,
                   lastUpsert, aud>>

\* --------------------------------------------------------------- ingestAll
\* ingestAll is called: runRepo.create, then the locals of ingestAll and of
\* fetchAllPages.
RunCreate(p) ==
    /\ pc[p] = "idle"
    /\ now' = now + 1
    /\ \/ /\ runs' = Append(runs, NewRun(Len(runs) + 1, now'))
          /\ ing' = [ing EXCEPT ![p] = InitIng(Len(runs) + 1)]
          /\ client' = [client EXCEPT ![p] = InitClient]
          /\ pc' = [pc EXCEPT ![p] = "fetchFirst"]
          /\ aud' = [aud EXCEPT ![p].runId = Len(runs) + 1,
                                ![p].srcAtStart = srcChanges,
                                ![p].startedAfter = {q \in Procs : Ended(q)}]
          /\ UNCHANGED faults
       \/ /\ StoreThrows
          /\ pc' = [pc EXCEPT ![p] = "thrown"]
          /\ aud' = [aud EXCEPT ![p].repoFaults = @ + 1]
          /\ UNCHANGED <<runs, ing, client>>
    /\ UNCHANGED unitVars
    /\ UNCHANGED <<companies, src, edge, result, srcChanges, lastUpsert>>

\* Where fetchAllPages goes once the pages of a pass are through.
AfterPass(c) ==
    IF Converged(Len(c.accumulated), c.totalHits)
       \/ ~(c.attempt < maxAccumulationAttempts)
    THEN "fetched" ELSE "fetchFirst"

\* One pass starts: attempt++, fetchPage(1), the totals, the merge of page 1.
\* fetchPage(1) is outside every try of fetchAllPages.
FetchFirstPage(p) ==
    /\ pc[p] = "fetchFirst"
    /\ \/ \E page \in Pages(1) :
            LET m == MergePage(client[p].accumulated, page)
                c == [client[p] EXCEPT !.attempt = @ + 1,
                                       !.totalHits = Len(src),
                                       !.totalPages = NumPages,
                                       !.accumulated = m.acc,
                                       !.pageNum = 2]
                a == [aud[p] EXCEPT !.served = @ \cup Range(page)]
            IN  /\ aud' = [aud EXCEPT ![p] = IF m.threw THEN FetchEnded(a) ELSE a]
                /\ client' = [client EXCEPT ![p] = IF m.threw THEN InitClient ELSE c]
                /\ pc' = [pc EXCEPT ![p] =
                            IF m.threw THEN "catchUpdate"
                            ELSE IF c.pageNum <= c.totalPages THEN "fetchNext"
                            ELSE AfterPass(c)]
                /\ UNCHANGED faults
       \/ /\ PageFails
          /\ aud' = [aud EXCEPT ![p] = FetchEnded([@ EXCEPT !.pageFaults = @ + 1])]
          /\ client' = [client EXCEPT ![p] = InitClient]
          /\ pc' = [pc EXCEPT ![p] = "catchUpdate"]
    /\ UNCHANGED unitVars
    /\ UNCHANGED <<companies, runs, src, edge, now, ing, result, srcChanges, lastUpsert>>

\* fetchPage(pageNum) for pageNum >= 2, in the try of the page loop: a failure
\* of the request or of the merge is logged and the loop goes on.
FetchNextPage(p) ==
    /\ pc[p] = "fetchNext"
    /\ \/ \E page \in Pages(client[p].pageNum) :
            LET m == MergePage(client[p].accumulated, page)
                c == [client[p] EXCEPT !.accumulated = m.acc, !.pageNum = @ + 1]
            IN  /\ aud' = [aud EXCEPT ![p].served = @ \cup Range(page)]
                /\ client' = [client EXCEPT ![p] = c]
                /\ pc' = [pc EXCEPT ![p] =
                            IF c.pageNum <= c.totalPages THEN "fetchNext"
                            ELSE AfterPass(c)]
                /\ UNCHANGED faults
       \/ LET c == [client[p] EXCEPT !.pageNum = @ + 1]
          IN  /\ PageFails
              /\ aud' = [aud EXCEPT ![p].pageFaults = @ + 1]
              /\ client' = [client EXCEPT ![p] = c]
              /\ pc' = [pc EXCEPT ![p] =
                          IF c.pageNum <= c.totalPages THEN "fetchNext"
                          ELSE AfterPass(c)]
    /\ UNCHANGED unitVars
    /\ UNCHANGED <<companies, runs, src, edge, now, ing, result, srcChanges, lastUpsert>>

\* fetchAllPages returns: the totals, counts.fetched, the de-duplication.
\* generateCompanyId is called in deduplicateCompanies outside the
\* per-record try: what it throws reaches the catch of ingestAll.
FetchReturn(p) ==
    /\ pc[p] = "fetched"
    /\ LET c == client[p]
           g == [ing[p] EXCEPT !.totalFromSource = c.totalHits,
                               !.pagesFromSource = c.totalPages,
                               !.accumulationAttempts = c.attempt,
                               !.counts.fetched = Len(c.accumulated)]
       IN  IF dedupeThrows(c.accumulated)
           THEN /\ ing' = [ing EXCEPT ![p] = g]
                /\ pc' = [pc EXCEPT ![p] = "catchUpdate"]
           ELSE LET u == deduplicateCompanies(c.accumulated, <<>>)
                IN  /\ ing' = [ing EXCEPT ![p] =
                                 [g EXCEPT !.todo = u, !.uniqueThisRun = Len(u)]]
                    /\ pc' = [pc EXCEPT ![p] =
                                IF u = <<>> THEN "finalize" ELSE "map"]
    /\ client' = [client EXCEPT ![p] = InitClient]
    /\ aud' = [aud EXCEPT ![p] = FetchEnded(@)]
    /\ UNCHANGED unitVars
    /\ UNCHANGED <<companies, runs, src, edge, now, result, faults, srcChanges, lastUpsert>>

\* The loop goes to the next unique company, or ends.
NextRecord(g) ==
    [g EXCEPT !.todo = Tail(@), !.dto = <<>>, !.existingDoc = <<>>]

LoopPc(g) == IF Tail(g.todo) = <<>> THEN "finalize" ELSE "map"

\* What the history keeps of an upsertCompany call that ended.
UpsertRecord(p, dto, found, before, after, outcome) ==
    [proc |-> p, dto |-> dto, found |-> found,
     docBefore |-> SelectSeq(before, LAMBDA d : d.companyId = dto.companyId),
     docAfter |-> SelectSeq(after, LAMBDA d : d.companyId = dto.companyId),
     countBefore |-> countAll(before), countAfter |-> countAll(after),
     outcome |-> outcome,
     created |-> outcome = "created", updated |-> outcome = "updated"]

\* The body of the per-record try up to the first await: mapRawToCompanyDto,
\* then upsertCompany's findOne. A throw goes to the per-record catch.
MapAndFind(p) ==
    /\ pc[p] = "map"
    /\ LET raw == Head(ing[p].todo)
           dto == mapRawToCompanyDto(raw, now)
       IN  \/ /\ mapThrows(raw)
              /\ ing' = [ing EXCEPT ![p].counts.failed = @ + 1]
              /\ pc' = [pc EXCEPT ![p] = "addError"]
              /\ aud' = [aud EXCEPT ![p].mapFaults = @ + 1]
              /\ UNCHANGED <<faults, lastUpsert>>
           \/ /\ ~mapThrows(raw)
              /\ ing' = [ing EXCEPT ![p].dto = <<dto>>,
                                    ![p].existingDoc = FindOne(companies, dto.companyId)]
              /\ pc' = [pc EXCEPT ![p] = "write"]
              /\ aud' = [aud EXCEPT ![p].sent = @ \cup {dto}]
              /\ UNCHANGED <<faults, lastUpsert>>
           \/ /\ ~mapThrows(raw)
              /\ StoreThrows
              /\ ing' = [ing EXCEPT ![p].counts.failed = @ + 1]
              /\ pc' = [pc EXCEPT ![p] = "addError"]
              /\ aud' = [aud EXCEPT ![p].upsertFaults = @ + 1, ![p].sent = @ \cup {dto}]
              /\ lastUpsert' =
                    <<UpsertRecord(p, dto, <<>>, companies, companies, "storeError")>>
    /\ UNCHANGED unitVars
    /\ UNCHANGED <<companies, runs, src, edge, now, client, result, srcChanges>>

\* upsertCompany after findOne: updateOne when a document was found, create
\* otherwise; then the counters of ingestAll.
UpsertWrite(p) ==
    /\ pc[p] = "write"
    /\ LET dto == Head(ing[p].dto)
           found == ing[p].existingDoc
           updated == UpdateFirst(companies, dto.companyId, dto, now)
           inserted == Append(companies, NewDoc(dto, now))
       IN  \/ /\ found # <<>>
              /\ companies' = updated
              /\ ing' = [ing EXCEPT ![p] = NextRecord([@ EXCEPT !.counts.updated = @ + 1])]
              /\ pc' = [pc EXCEPT ![p] = LoopPc(ing[p])]
              /\ aud' = [aud EXCEPT ![p].upserted = @ + 1]
              /\ lastUpsert' = <<UpsertRecord(p, dto, found, companies, updated, "updated")>>
              /\ UNCHANGED faults
           \/ /\ found = <<>>
              /\ UniqueIndexAllows(companies, dto.companyId)
              /\ companies' = inserted
              /\ ing' = [ing EXCEPT ![p] = NextRecord([@ EXCEPT !.counts.created = @ + 1])]
              /\ pc' = [pc EXCEPT ![p] = LoopPc(ing[p])]
              /\ aud' = [aud EXCEPT ![p].upserted = @ + 1]
              /\ lastUpsert' = <<UpsertRecord(p, dto, found, companies, inserted, "created")>>
              /\ UNCHANGED faults
           \/ /\ found = <<>>
              /\ ~UniqueIndexAllows(companies, dto.companyId)
              /\ ing' = [ing EXCEPT ![p].counts.failed = @ + 1]
              /\ pc' = [pc EXCEPT ![p] = "addError"]
              /\ aud' = [aud EXCEPT ![p].upsertFaults = @ + 1]
              /\ lastUpsert' =
                    <<UpsertRecord(p, dto, found, companies, companies, "duplicateKey")>>
              /\ UNCHANGED <<companies, faults>>
           \/ /\ StoreThrows
              /\ ing' = [ing EXCEPT ![p].counts.failed = @ + 1]
              /\ pc' = [pc EXCEPT ![p] = "addError"]
              /\ aud' = [aud EXCEPT ![p].upsertFaults = @ + 1]
              /\ lastUpsert' =
                    <<UpsertRecord(p, dto, found, companies, companies, "storeError")>>
              /\ UNCHANGED companies
    /\ UNCHANGED unitVars
    /\ UNCHANGED <<runs, src, edge, now, client, result, srcChanges>>

\* The per-record catch: runRepo.addError(run.runId, `${raw.name}: ...`).
\* It is awaited inside the outer try: what it throws reaches the outer catch.
AddError(p) ==
    /\ pc[p] = "addError"
    /\ \/ /\ runs' = [runs EXCEPT ![ing[p].runId] =
                        RunWithError(@, [fatal |-> FALSE, name |-> Head(ing[p].todo).name])]
          /\ ing' = [ing EXCEPT ![p] = NextRecord(@)]
          /\ pc' = [pc EXCEPT ![p] = LoopPc(ing[p])]
          /\ UNCHANGED <<faults, aud>>
       \/ /\ StoreThrows
          /\ pc' = [pc EXCEPT ![p] = "catchUpdate"]
          /\ aud' = [aud EXCEPT ![p].repoFaults = @ + 1]
          /\ UNCHANGED <<runs, ing>>
    /\ UNCHANGED unitVars
    /\ UNCHANGED <<companies, src, edge, now, client, result, srcChanges, lastUpsert>>

\* A result that leaves the failed records out of the counters, against
\* which IngestionResult is told apart.
IngestionResultNoFailed(g, status, isComplete) ==
    [runId |-> g.runId, status |-> status, counts |-> [g.counts EXCEPT !.failed = 0],
     sourceMeta |-> [totalFromSource |-> g.totalFromSource,
                     pagesFromSource |-> g.pagesFromSource,
                     accumulationAttempts |-> g.accumulationAttempts],
     uniqueThisRun |-> g.uniqueThisRun, isComplete |-> isComplete]

\* The IngestionResult ingestAll returns.
IngestionResult(g, status, isComplete) ==
    [runId |-> g.runId, status |-> status, counts |-> g.counts,
     sourceMeta |-> [totalFromSource |-> g.totalFromSource,
                     pagesFromSource |-> g.pagesFromSource,
                     accumulationAttempts |-> g.accumulationAttempts],
     uniqueThisRun |-> g.uniqueThisRun, isComplete |-> isComplete]

\* The dto of runRepo.update in ingestAll.
RunUpdateDto(g, status, t) ==
    [status |-> status, finishedAt |-> t, counts |-> g.counts,
     sourceMeta |-> [totalFromSource |-> g.totalFromSource,
                     pagesFromSource |-> g.pagesFromSource]]

\* After the loop: runRepo.update(completed), then the result is returned.
Finalize(p) ==
    /\ pc[p] = "finalize"
    /\ \/ /\ runs' = [runs EXCEPT ![ing[p].runId] =
                        UpdatedRun(@, RunUpdateDto(ing[p], "completed", now))]
          /\ result' = [result EXCEPT ![p] =
                          <<IngestionResult(ing[p], "completed",
                               IsComplete(ing[p].counts.fetched, ing[p].totalFromSource))>>]
          /\ pc' = [pc EXCEPT ![p] = "done"]
          /\ ing' = [ing EXCEPT ![p] = InitIng(0)]
          /\ UNCHANGED <<faults, aud>>
       \/ /\ StoreThrows
          /\ pc' = [pc EXCEPT ![p] = "catchUpdate"]
          /\ aud' = [aud EXCEPT ![p].repoFaults = @ + 1]
          /\ UNCHANGED <<runs, result, ing>>
    /\ UNCHANGED unitVars
    /\ UNCHANGED <<companies, src, edge, now, client, srcChanges, lastUpsert>>

\* The outer catch: runRepo.update(failed). Nothing catches what it throws.
CatchUpdate(p) ==
    /\ pc[p] = "catchUpdate"
    /\ \/ /\ runs' = [runs EXCEPT ![ing[p].runId] =
                        UpdatedRun(@, RunUpdateDto(ing[p], "failed", now))]
          /\ pc' = [pc EXCEPT ![p] = "catchAddError"]
          /\ UNCHANGED <<faults, aud, ing>>
       \/ /\ StoreThrows
          /\ pc' = [pc EXCEPT ![p] = "thrown"]
          /\ ing' = [ing EXCEPT ![p] = InitIng(0)]
          /\ aud' = [aud EXCEPT ![p].repoFaults = @ + 1]
          /\ UNCHANGED runs
    /\ UNCHANGED unitVars
    /\ UNCHANGED <<companies, src, edge, now, client, result, srcChanges, lastUpsert>>

\* The outer catch: runRepo.addError(`Fatal: ...`), then the failed result.
CatchAddError(p) ==
    /\ pc[p] = "catchAddError"
    /\ \/ /\ runs' = [runs EXCEPT ![ing[p].runId] =
                        RunWithError(@, [fatal |-> TRUE, name |-> <<>>])]
          /\ result' = [result EXCEPT ![p] = <<IngestionResult(ing[p], "failed", FALSE)>>]
          /\ pc' = [pc EXCEPT ![p] = "done"]
          /\ UNCHANGED <<faults, aud>>
       \/ /\ StoreThrows
          /\ pc' = [pc EXCEPT ![p] = "thrown"]
          /\ aud' = [aud EXCEPT ![p].repoFaults = @ + 1]
          /\ UNCHANGED <<runs, result>>
    /\ ing' = [ing EXCEPT ![p] = InitIng(0)]
    /\ UNCHANGED unitVars
    /\ UNCHANGED <<companies, src, edge, now, client, srcChanges, lastUpsert>>

\* ---------------------------------------------------------- specifications
Step(p) ==
    \/ FetchFirstPage(p)
    \/ FetchNextPage(p)
    \/ FetchReturn(p)
    \/ MapAndFind(p)
    \/ UpsertWrite(p)
    \/ AddError(p)
    \/ Finalize(p)
    \/ CatchUpdate(p)
    \/ CatchAddError(p)

\* Callers serialize the invocations: invocation p is made once the
\* invocations before it have ended.
IngestAllSerial(p) ==
    /\ \A q \in Procs : q < p => Ended(q)
    /\ RunCreate(p)

\* The upstream is edited between two invocations, not during one.
SourceChangeBetweenRuns ==
    /\ \A p \in Procs : pc[p] = "idle" \/ Ended(p)
    /\ SourceChange

Next ==
    \/ SourceChangeBetweenRuns
    \/ \E p \in Procs : IngestAllSerial(p)
    \/ \E p \in Procs : Step(p)

Spec == Init /\ [][Next]_vars

\* Callers do not serialize: invocations overlap.
IngestAllAnyTime(p) == RunCreate(p)

\* The steps of fetchAllPages read the upstream and write only the locals of
\* their own invocation: they commute with every step of another invocation.
\* So it loses no behaviour of the store to let the fetching invocations move
\* first, the lowest of them at a time.
InFetch(p) == pc[p] \in {"fetchFirst", "fetchNext", "fetched"}

StepOverlapped(p) ==
    /\ LET F == {q \in Procs : InFetch(q)}
       IN  F = {} \/ (p \in F /\ \A q \in F : p <= q)
    /\ Step(p)

NextConc ==
    \/ SourceChange
    \/ \E p \in Procs : IngestAllAnyTime(p)
    \/ \E p \in Procs : StepOverlapped(p)

\* Overlapping invocations are studied against a steady upstream and a store
\* that does not fail: the behaviours differ by their interleaving and by the
\* upstream's edits only.
InitConc ==
    /\ UnitInit
    /\ companies = <<>>
    /\ runs = <<>>
    /\ src \in SrcChoices
    /\ edge = "steady"
    /\ now = 0
    /\ pc = [p \in Procs |-> "idle"]
    /\ client = [p \in Procs |-> InitClient]
    /\ ing = [p \in Procs |-> InitIng(0)]
    /\ result = [p \in Procs |-> <<>>]
    /\ faults = MaxFaults
    /\ srcChanges = 0
    /\ lastUpsert = <<>>
    /\ aud = [p \in Procs |-> InitAud]

SpecConc == InitConc /\ [][NextConc]_vars

\* ------------------------------------------------------------------ claims
LastUpsert == Head(lastUpsert)

\* The store holds the document an upsertCompany call carried when the call
\* began, with the fingerprint of the call's dto.
SameFingerprint(u) ==
    /\ u.docBefore # <<>>
    /\ Head(u.docBefore).contentHash = u.dto.contentHash

\* C1: an upsertCompany call for an entity the store holds with the same
\* fingerprint performs no write (the document, its provenance included, is
\* what it was) and reports created = false, updated = false.
C1_NoWriteWhenFingerprintUnchanged ==
    (/\ lastUpsert # <<>>
     /\ SameFingerprint(LastUpsert)
     /\ LastUpsert.outcome # "storeError") =>
            /\ LastUpsert.docAfter = LastUpsert.docBefore
            /\ ~LastUpsert.created
            /\ ~LastUpsert.updated

\* Invocation q is a replay of invocation p: p ran to the end with a complete
\* fetch and no failure, q started after p ended, the upstream was not edited
\* in between, and q too met no failure.
Replay(p, q) ==
    /\ p \in aud[q].startedAfter
    /\ result[p] # <<>> /\ result[q] # <<>>
    /\ Head(result[p]).status = "completed"
    /\ Head(result[q]).status = "completed"
    /\ Head(result[p]).isComplete
    /\ Head(result[p]).counts.failed = 0
    /\ Head(result[q]).counts.failed = 0
    /\ aud[p].srcAtStart = srcChanges
    /\ aud[p].pageFaults = 0 /\ aud[q].pageFaults = 0

\* C2: the second of two successive runs against an unchanged upstream
\* reports created = 0 and updated = 0.
C2_ZeroChurnReplay ==
    \A p, q \in Procs :
        Replay(p, q) =>
            /\ Head(result[q]).counts.created = 0
            /\ Head(result[q]).counts.updated = 0

\* C3: whatever the sequence of upsertCompany calls, the store holds at most
\* one document per companyId; a call for a companyId the store does not hold
\* reports created = true and adds one document; a call for a companyId the
\* store holds reports created = false and leaves the count as it was.
C3_OneRecordPerCompanyId ==
    /\ \A i, j \in 1..Len(companies) :
          companies[i].companyId = companies[j].companyId => i = j
    /\ (lastUpsert # <<>> /\ LastUpsert.outcome # "storeError") =>
             IF LastUpsert.docBefore = <<>>
             THEN /\ LastUpsert.outcome = "created"
                  /\ LastUpsert.created
                  /\ LastUpsert.countAfter = LastUpsert.countBefore + 1
                  /\ Len(LastUpsert.docAfter) = 1
             ELSE /\ LastUpsert.outcome = "updated"
                  /\ ~LastUpsert.created
                  /\ LastUpsert.countAfter = LastUpsert.countBefore
                  /\ Len(LastUpsert.docAfter) = 1

\* A record with the name and the headquarters of a stored one, and every
\* other field different, was upserted, next to another stored entity.
C3_Witness ==
    /\ lastUpsert # <<>>
    /\ LastUpsert.outcome = "updated"
    /\ ~SameFingerprint(LastUpsert)
    /\ Head(LastUpsert.docBefore).industry # LastUpsert.dto.industry
    /\ LastUpsert.countAfter = 2

\* The document is the normalized form dto, whole: every field mapRawToCompanyDto
\* gives is the document's, an undefined one absent from it.
IsNormalizedForm(doc, dto) ==
    \A f \in DtoFields : doc[f] = dto[f]

\* C4: when two invocations overlap, the store never holds two documents of
\* one companyId, and every stored document is the normalized form of a raw
\* record one of the invocations upserted.
C4_OverlappingRunsKeepStoreSound ==
    /\ \A i, j \in 1..Len(companies) :
          companies[i].companyId = companies[j].companyId => i = j
    /\ \A i \in 1..Len(companies) :
          \E p \in Procs : \E dto \in aud[p].sent :
              IsNormalizedForm(companies[i], dto)

\* fetchAllPages of invocation p ended after pages that, together, held every
\* entity of the upstream, all of them well-formed, no request failing, and
\* the invocation returned without a failure of the run store.
EveryEntityServed(p) ==
    /\ result[p] # <<>>
    /\ aud[p].servedAll
    /\ aud[p].servedBad = 0
    /\ aud[p].pageFaults = 0
    /\ aud[p].repoFaults = 0

\* C5: when every entity of the upstream appears in a page of one of the (at
\* most maxAccumulationAttempts) passes, fetchAllPages returns as many
\* companies as the upstream holds and the run reports isComplete = true.
C5_AccumulationConverges ==
    \A p \in Procs :
        EveryEntityServed(p) =>
            /\ Head(result[p]).counts.fetched = Head(result[p]).sourceMeta.totalFromSource
            /\ Head(result[p]).isComplete

\* C6: ingestAll never throws: every invocation that ends returns a result
\* that carries a status, whatever run-store call fails.
C6_IngestAllNeverThrows ==
    \A p \in Procs :
        /\ pc[p] # "thrown"
        /\ pc[p] = "done" =>
              /\ result[p] # <<>>
              /\ Head(result[p]).status \in {"completed", "failed"}

\* Invocation p ended, and one raw record of its batch, and nothing else,
\* failed: either one served record is one mapRawToCompanyDto throws on, or
\* one upsertCompany call threw.
ExactlyOneRecordFailure(p) ==
    /\ Ended(p)
    /\ aud[p].runId # 0
    /\ aud[p].servedBad + aud[p].upsertFaults = 1
    /\ aud[p].pageFaults = 0
    /\ aud[p].repoFaults = 0

\* C7: when exactly one raw record of a batch fails in normalization or in
\* the upsert, ingestAll upserts the others, returns status = completed and
\* counts failed = 1.
C7_FaultIsolation ==
    \A p \in Procs :
        ExactlyOneRecordFailure(p) =>
            /\ pc[p] = "done"
            /\ Head(result[p]).status = "completed"
            /\ Head(result[p]).counts.failed = 1
            /\ aud[p].upserted = Head(result[p]).uniqueThisRun - 1

Terminal == {"completed", "failed"}

\* The run invocation p created.
RunOf(p) == runs[aud[p].runId]

RunsWellFormed ==
    /\ Len(runs) = Cardinality({p \in Procs : aud[p].runId # 0})
    /\ \A p, q \in Procs :
          (aud[p].runId # 0 /\ aud[p].runId = aud[q].runId) => p = q
    /\ \A r \in 1..Len(runs) :
          /\ runs[r].runId = r
          /\ runs[r].status \in Terminal \cup {"running"}
          /\ runs[r].status = "running" <=> runs[r].finishedAt = 0
    /\ \A p \in Procs :
          pc[p] = "done" =>
             /\ RunOf(p).status \in Terminal
             /\ RunOf(p).status = Head(result[p]).status

\* A step creates at most one run, running and with zero counters; it changes
\* a status only from running to completed or failed, and sets finishedAt in
\* the same write.
RunStep ==
    /\ Len(runs') \in {Len(runs), Len(runs) + 1}
    /\ Len(runs') = Len(runs) + 1 =>
          /\ runs'[Len(runs')].status = "running"
          /\ runs'[Len(runs')].counts = ZeroCounts
          /\ runs'[Len(runs')].finishedAt = 0
    /\ \A r \in 1..Len(runs) :
          runs'[r].status # runs[r].status =>
             /\ runs[r].status = "running"
             /\ runs[r].finishedAt = 0
             /\ runs'[r].status \in Terminal
             /\ runs'[r].finishedAt # 0

C9_NoWriteAfterFinishedAt ==
    [][\A r \in 1..Len(runs) : runs[r].finishedAt # 0 => runs'[r] = runs[r]]_vars

PassEnded(p) == pc[p] \in {"fetchFirst", "fetched"} /\ client[p].attempt > 0

\* The pass just ended brought the accumulated size to the reported total.
PassConverged(p) == Len(client[p].accumulated) >= client[p].totalHits

\* C11: fetchAllPages makes at most maxAccumulationAttempts (5) passes; it
\* goes on to another pass only when the pass just ended has not converged
\* and the budget is not spent, and returns otherwise; the run of a fetch
\* that never converged, nothing else failing, ends completed with
\* accumulationAttempts = 5 and isComplete = false.
C11_AtMostFivePasses ==
    \A p \in Procs :
        /\ client[p].attempt <= 5
        /\ (PassEnded(p) /\ pc[p] = "fetchFirst") =>
              ~PassConverged(p) /\ client[p].attempt < 5
        /\ pc[p] = "fetched" =>
              /\ client[p].attempt \in 1..5
              /\ PassConverged(p) \/ client[p].attempt = 5
        /\ (/\ result[p] # <<>>
            /\ aud[p].pageFaults = 0 /\ aud[p].repoFaults = 0 /\ aud[p].servedBad = 0
            /\ Head(result[p]).counts.fetched < Head(result[p]).sourceMeta.totalFromSource) =>
              /\ Head(result[p]).status = "completed"
              /\ Head(result[p]).sourceMeta.accumulationAttempts = 5
              /\ ~Head(result[p]).isComplete

\* A run returned after five passes that did not converge, and another after
\* a fetch that converged in its third pass.
C11_Witness ==
    \E p, q \in Procs :
        /\ result[p] # <<>> /\ result[q] # <<>>
        /\ Head(result[p]).status = "completed"
        /\ Head(result[p]).sourceMeta.accumulationAttempts = 5
        /\ Head(result[p]).counts.fetched < Head(result[p]).sourceMeta.totalFromSource
        /\ Head(result[q]).status = "completed"
        /\ Head(result[q]).sourceMeta.accumulationAttempts = 3
        /\ Head(result[q]).isComplete

\* C12: a fetchPage call that fails, for page 1 as for any other page, is
\* skipped: fetchAllPages does not throw and the run is not marked failed
\* because of it.
C12_PageFailureSkipped ==
    \A p \in Procs :
        (/\ Ended(p)
         /\ aud[p].pageFaults > 0
         /\ aud[p].repoFaults = 0
         /\ aud[p].servedBad = 0) =>
            /\ pc[p] = "done"
            /\ Head(result[p]).status = "completed"
            /\ RunOf(p).status = "completed"

\* ---------------------------------------------------------------- fetchPage
\* What the upstream may answer to one HTTP request of fetchPage: a page
\* (success true or false), HTTP 429, another status that is not 200, a body
\* JSON.parse rejects, a body without a results array.
Responses == {"ok", "successFalse", "429", "non200", "unparsable", "noResults"}

\* The responses the retry policy is meant to retry.
Retryable == {"non200", "unparsable", "noResults"}

\* fetchWithRetry on a response: <<>> when it returns the parsed body, <<e>>
\* when it throws e. For 429 it throws a plain Error whose name it has set to
\* 'AbortError'.
fetchWithRetry(resp) ==
    CASE resp = "429" -> <<[class |-> "Error", name |-> "AbortError"]>>
      [] resp = "non200" -> <<[class |-> "Error", name |-> "Error"]>>
      [] resp = "unparsable" -> <<[class |-> "SyntaxError", name |-> "SyntaxError"]>>
      [] resp = "noResults" -> <<[class |-> "Error", name |-> "Error"]>>
      [] OTHER -> <<>>

\* p-retry gives up at once on an instance of its AbortError class and on a
\* TypeError; what an error is named does not count.
pRetryStops(err) == err.class \in {"AbortError", "TypeError"}

\* A retry policy with one more retry, against which pRetryRetries is told
\* apart.
pRetryRetriesOneMore(attemptNumber) == attemptNumber <= maxRetries + 1

\* p-retry with retries: maxRetries: after failed attempt attemptNumber
\* another attempt is made while the retries are not spent.
pRetryRetries(attemptNumber) == attemptNumber <= maxRetries

\* fetchPage(n) is called.
FetchPageCall(n) ==
    /\ fp.pc \in {"idle", "returned", "threw"}
    /\ fp' = [pc |-> "request", page |-> n, responses |-> <<>>, error |-> <<>>]
    /\ UNCHANGED <<ingestVars, mp, errLog, ak, pg>>

\* One HTTP request of the call and what fetchPage does with the answer:
\* return the page, throw on success = false, retry, or give up.
HttpAttempt ==
    /\ fp.pc = "request"
    /\ \E resp \in Responses :
          LET rs == Append(fp.responses, resp)
              e == fetchWithRetry(resp)
          IN  fp' = IF e = <<>>
                    THEN IF resp = "successFalse"
                         THEN [fp EXCEPT !.pc = "threw", !.responses = rs,
                                         !.error = <<[class |-> "Error", name |-> "Error"]>>]
                         ELSE [fp EXCEPT !.pc = "returned", !.responses = rs]
                    ELSE IF pRetryStops(Head(e)) \/ ~pRetryRetries(Len(rs))
                         THEN [fp EXCEPT !.pc = "threw", !.responses = rs, !.error = e]
                         ELSE [fp EXCEPT !.responses = rs]
    /\ UNCHANGED <<ingestVars, mp, errLog, ak, pg>>

NextFetch ==
    \/ \E n \in 1..NumPages : FetchPageCall(n)
    \/ HttpAttempt

\* fetchPage on its own: no run of ingestAll is under way.
InitFetch ==
    /\ Init
    /\ src = <<>>

SpecFetch == InitFetch /\ [][NextFetch]_vars

\* C13: when the upstream answers a request with HTTP 429, the fetchPage
\* call makes no further HTTP request: a 429 is the last answer of its call,
\* and the call has failed.
C13_NoAttemptAfter429 ==
    \A i \in 1..Len(fp.responses) :
        fp.responses[i] = "429" =>
            /\ i = Len(fp.responses)
            /\ fp.pc = "threw"

\* Every answer the call got so far is a retryable failure.
AllRetryable == \A i \in 1..Len(fp.responses) : fp.responses[i] \in Retryable

Upper(c) == CASE c = "a" -> "A" [] c = "x" -> "X" [] OTHER -> c

\* The string as it is, and in upper case between blanks.
Decor(s) == {s, <<" ">> \o [i \in 1..Len(s) |-> Upper(s[i])] \o <<" ">>}

NameBases == {<<"a">>, <<"b">>, <<"a", "|", "x">>}
HqBases == {<<"x">>, <<"x", "|", "x">>, <<>>}

\* The names and headquarters a raw record is given: the bases decorated, and
\* the field missing.
NameForms == UNION {Decor(n) : n \in NameBases} \cup {Undefined}
HqForms == UNION {Decor(h) : h \in HqBases} \cup {Undefined}

\* The second record of a pair: any name and hq, and the other fields present
\* or not, with one value or another. region, description, yoi, logo and the
\* related links are properties these objects do not have.
RawPool ==
    {[name |-> n, hq |-> h, industry |-> i, url |-> u, assetClass |-> c,
      sortingName |-> sn] :
        n \in NameForms, h \in HqForms, i \in {<<"i", "1">>, <<"i", "2">>},
        u \in {Undefined, <<>>, <<"u">>}, c \in {<<"p">>, Undefined},
        sn \in {<<"s", "1">>, <<"s", "2">>}}

\* The first record of a pair.
RawPoolFirst ==
    {r \in RawPool : /\ r.industry = <<"i", "1">> /\ r.url = Undefined
                     /\ r.assetClass = <<"p">> /\ r.sortingName = <<"s", "1">>}

\* What the three functions give on raw, called at time t: each of id, hash
\* and dto is <<v>> for the value v returned, <<>> when the function threw.
MapperOutcome(raw, t) ==
    [id |-> IF idThrows(raw) THEN <<>> ELSE <<generateCompanyId(raw)>>,
     key |-> IF idThrows(raw) THEN <<>> ELSE <<getCompanyIdKey(raw)>>,
     hash |-> <<generateContentHash(raw)>>,
     dto |-> IF mapThrows(raw) THEN <<>> ELSE <<mapRawToCompanyDto(raw, t)>>]

\* generateCompanyId, getCompanyIdKey, generateContentHash and
\* mapRawToCompanyDto are called on the two records, at two times.
MapperCalls ==
    /\ mp.pc = "input"
    /\ mp' = [pc |-> "done", a |-> mp.a, b |-> mp.b,
              outA |-> MapperOutcome(mp.a, 1), outB |-> MapperOutcome(mp.b, 2)]
    /\ UNCHANGED <<ingestVars, fp, errLog, ak, pg>>

NextMap == MapperCalls

\* Nothing runs but the mapper.
IngestIdle ==
    /\ companies = <<>>
    /\ runs = <<>>
    /\ src = <<>>
    /\ edge = "steady"
    /\ now = 0
    /\ pc = [p \in Procs |-> "idle"]
    /\ client = [p \in Procs |-> InitClient]
    /\ ing = [p \in Procs |-> InitIng(0)]
    /\ result = [p \in Procs |-> <<>>]
    /\ faults = 0
    /\ srcChanges = 0
    /\ lastUpsert = <<>>
    /\ aud = [p \in Procs |-> InitAud]

InitMap ==
    /\ IngestIdle
    /\ fp = IdleFetch
    /\ errLog = <<>>
    /\ ak = IdleKeys
    /\ pg = IdlePass
    /\ mp \in {[pc |-> "input", a |-> a, b |-> b] : a \in RawPoolFirst, b \in RawPool}

SpecMap == InitMap /\ [][NextMap]_vars

\* s and t are one base string, decorated or not: they are equal up to
\* letter case and surrounding blanks. A missing hq is like an empty one.
SameUpTo(s, t, bases) ==
    \E base \in bases :
        /\ s \in Decor(base) \cup (IF base = <<>> THEN {Undefined} ELSE {})
        /\ t \in Decor(base) \cup (IF base = <<>> THEN {Undefined} ELSE {})

\* C15: two raw records whose names, and whose headquarters, are equal up to
\* letter case and surrounding whitespace get the same company id, whatever
\* their other fields are and whenever the id is computed.
C15_IdDependsOnNameAndHqOnly ==
    (/\ mp.pc = "done"
     /\ SameUpTo(mp.a.name, mp.b.name, NameBases)
     /\ SameUpTo(mp.a.hq, mp.b.hq, HqBases)) =>
        /\ mp.outA.id # <<>>
        /\ mp.outA.id = mp.outB.id
        /\ mp.outA.dto # <<>> /\ mp.outB.dto # <<>> =>
              Head(mp.outA.dto).companyId = Head(mp.outB.dto).companyId

\* Two records with one identity written differently and every other field
\* different got one id.
C15_Witness ==
    /\ mp.pc = "done"
    /\ mp.a.name # mp.b.name /\ SameUpTo(mp.a.name, mp.b.name, NameBases)
    /\ mp.a.hq # mp.b.hq /\ SameUpTo(mp.a.hq, mp.b.hq, HqBases)
    /\ mp.a.hq # Undefined /\ mp.b.hq # Undefined /\ Len(mp.a.hq) > 1
    /\ mp.a.industry # mp.b.industry
    /\ mp.a.url # mp.b.url
    /\ mp.a.assetClass # mp.b.assetClass
    /\ mp.a.sortingName # mp.b.sortingName
    /\ mp.outA.id # <<>> /\ mp.outA.id = mp.outB.id

\* The name and the headquarters as the identity reads them: lowercased and
\* trimmed, a missing hq as ''.
NormalizedPair(raw) ==
    <<Trim(ToLowerCase(raw.name)),
      Trim(ToLowerCase(IF raw.hq = Undefined THEN <<>> ELSE raw.hq))>>

\* C16: two raw records that differ in their normalized name or in their
\* normalized headquarters get different pre-hash keys and different company
\* ids: the key is an injective function of the normalized pair.
C16_KeyInjective ==
    (/\ mp.pc = "done"
     /\ mp.outA.id # <<>> /\ mp.outB.id # <<>>
     /\ NormalizedPair(mp.a) # NormalizedPair(mp.b)) =>
        /\ mp.outA.key # mp.outB.key
        /\ mp.outA.id # mp.outB.id

\* The business fields of a raw record, and those of them a missing value of
\* which counts as the empty string.
BusinessFields ==
    {"name", "assetClass", "industry", "region", "description", "url", "hq",
     "yoi", "logo", "relatedLinkOne", "relatedLinkOneTitle", "relatedLinkTwo",
     "relatedLinkTwoTitle"}

DefaultedFields == BusinessFields \ {"name", "assetClass", "industry", "region"}

\* The value of business field f of raw.
BusinessValue(raw, f) ==
    IF f \in DefaultedFields /\ Field(raw, f) = Undefined THEN <<>> ELSE Field(raw, f)

SameBusinessContent(a, b) ==
    \A f \in BusinessFields : BusinessValue(a, f) = BusinessValue(b, f)

\* C17: the fingerprints of two raw records differ if and only if the
\* records differ in a business field, a missing description, url, hq, yoi,
\* logo or related link counting as the empty string; sortingName and the
\* time of the call do not count.
C17_FingerprintOfBusinessFields ==
    mp.pc = "done" =>
        /\ mp.outA.hash # <<>> /\ mp.outB.hash # <<>>
        /\ (mp.outA.hash # mp.outB.hash) <=> ~SameBusinessContent(mp.a, mp.b)
        /\ (mp.outA.dto # <<>> /\ mp.outB.dto # <<>> /\ SameBusinessContent(mp.a, mp.b)) =>
              Head(mp.outA.dto).contentHash = Head(mp.outB.dto).contentHash

\* Two records of one business content, one without url and one with the
\* empty url, with different sortingName, mapped at different times, got
\* one fingerprint.
C17_Witness ==
    /\ mp.pc = "done"
    /\ mp.a.url = Undefined /\ mp.b.url = <<>>
    /\ mp.a.sortingName # mp.b.sortingName
    /\ SameBusinessContent(mp.a, mp.b)
    /\ mp.outA.dto # <<>> /\ mp.outB.dto # <<>>
    /\ Head(mp.outA.dto).fetchedAt # Head(mp.outB.dto).fetchedAt
    /\ Head(mp.outA.dto).contentHash = Head(mp.outB.dto).contentHash

\* C18: generateCompanyId, generateContentHash and mapRawToCompanyDto return
\* a value on every raw record, one whose name, hq or any other field is
\* missing included.
C18_MapperTotal ==
    mp.pc = "done" =>
        /\ mp.outA.id # <<>> /\ mp.outB.id # <<>>
        /\ mp.outA.hash # <<>> /\ mp.outB.hash # <<>>
        /\ mp.outA.dto # <<>> /\ mp.outB.dto # <<>>

\* ----------------------------------------------------------------- addError
\* The messages addError is called with: a record's failure, the fatal one.
ErrorMessages ==
    {[fatal |-> FALSE, name |-> <<"a">>], [fatal |-> FALSE, name |-> <<"b">>],
     [fatal |-> TRUE, name |-> <<>>]}

\* runRepo.addError(runId, m) is called on run 1.
AddErrorCall(m) ==
    /\ Len(errLog) < MaxAddErrors
    /\ runs' = [runs EXCEPT ![1] = RunWithError(@, m)]
    /\ errLog' = Append(errLog, m)
    /\ UNCHANGED <<companies, src, edge, now, pc, client, ing, result, faults,
                   srcChanges, lastUpsert, aud, fp, mp, ak, pg>>

NextErr == \E m \in ErrorMessages : AddErrorCall(m)

\* One run exists; nothing happens but calls of addError on it.
InitErr ==
    /\ companies = <<>>
    /\ runs = <<NewRun(1, 1)>>
    /\ src = <<>>
    /\ edge = "steady"
    /\ now = 1
    /\ pc = [p \in Procs |-> "idle"]
    /\ client = [p \in Procs |-> InitClient]
    /\ ing = [p \in Procs |-> InitIng(0)]
    /\ result = [p \in Procs |-> <<>>]
    /\ faults = 0
    /\ srcChanges = 0
    /\ lastUpsert = <<>>
    /\ aud = [p \in Procs |-> InitAud]
    /\ UnitInit

SpecErr == InitErr /\ [][NextErr]_vars

\* C19: after any sequence of addError calls on a run, errorMessages has at
\* most 10 entries: the messages added last, in the order they were added.
C19_LastTenErrors ==
    \A r \in 1..Len(runs) :
        /\ Len(runs[r].errorMessages) <= 10
        /\ runs[r].errorMessages =
              IF Len(errLog) <= 10 THEN errLog
              ELSE SubSeq(errLog, Len(errLog) - 9, Len(errLog))

\* Twelve messages were added, the first two since evicted, and the list is
\* not what came first.
C19_Witness ==
    /\ Len(errLog) = 12
    /\ Len(runs[1].errorMessages) = 10
    /\ runs[1].errorMessages # SubSeq(errLog, 1, 10)
    /\ runs[1].errorMessages[10] = errLog[12]
    /\ errLog[1] # errLog[11]

\* ---------------------------------------------------------- AdminKeyService
\* The token of the i-th generated key: 'ak_' and the hex of fresh random
\* bytes, which differ from key to key.
Token(i) == <<"a", "k", "_", <<"0", "1", "2", "3", "4", "5", "6", "7", "8", "9">>[i + 1]>>

\* The X-Admin-Key values validateKey is called with: the generated tokens,
\* an 'ak_' token never generated, the bytes of a generated token under
\* another prefix, and a cut prefix.
PresentedTokens ==
    {Token(i) : i \in 0..MaxKeys} \cup {<<"s", "k", "_", "1">>, <<"a", "k">>}

\* ttlMinutes, in ticks of the clock.
TtlChoices == {1, 2}

\* hashToken: sha256 (collision free) of the token.
hashToken(token) == <<"sha256", token>>

\* A filter without the revocation test, against which KeyFilter is told
\* apart.
KeyFilterIgnoringRevoked(doc, tokenHash, at) ==
    /\ ~doc.deleted
    /\ doc.tokenHash = tokenHash
    /\ doc.expiresAt > at

\* The filter of validateKey's findOne:
\* { tokenHash, expiresAt: { $gt: now }, revokedAt: null }.
KeyFilter(doc, tokenHash, at) ==
    /\ ~doc.deleted
    /\ doc.tokenHash = tokenHash
    /\ doc.expiresAt > at
    /\ doc.revokedAt = <<>>

\* The _ids of the documents findOne may return.
FindKey(tokenHash, at) ==
    {k \in 1..Len(ak.adminKeys) : KeyFilter(ak.adminKeys[k], tokenHash, at)}

\* generateKey(ttl): a fresh token, its hash stored with the expiry. The
\* document's _id is its place in adminKeys.
GenerateKey(ttl) ==
    /\ Len(ak.adminKeys) < MaxKeys
    /\ ak' = [ak EXCEPT !.adminKeys =
                 Append(@, [tokenHash |-> hashToken(Token(Len(ak.adminKeys) + 1)),
                            createdAt |-> ak.clock,
                            expiresAt |-> ak.clock + ttl,
                            revokedAt |-> <<>>,
                            lastUsedAt |-> <<>>,
                            deleted |-> FALSE])]
    /\ UNCHANGED <<ingestVars, fp, mp, errLog, pg>>

\* Time passes.
Tick ==
    /\ ak.clock < MaxClock
    /\ ak' = [ak EXCEPT !.clock = @ + 1]
    /\ UNCHANGED <<ingestVars, fp, mp, errLog, pg>>

\* The TTL index on expiresAt (expireAfterSeconds: 0): MongoDB removes a
\* document whose expiry has come, some time after it has.
ExpireKey(k) ==
    /\ k \in 1..Len(ak.adminKeys)
    /\ ~ak.adminKeys[k].deleted
    /\ ak.adminKeys[k].expiresAt <= ak.clock
    /\ ak' = [ak EXCEPT !.adminKeys[k].deleted = TRUE]
    /\ UNCHANGED <<ingestVars, fp, mp, errLog, pg>>

\* validateKey(token) is called: a token without the prefix is refused at
\* once; otherwise the hash and the time are taken and findOne is awaited.
ValidateKeyCalled(token) ==
    IF ~StartsWith(token, <<"a", "k", "_">>)
    THEN [ak EXCEPT !.lastValidate = <<[token |-> token, result |-> FALSE]>>]
    ELSE [ak EXCEPT !.validating =
              <<[token |-> token, tokenHash |-> hashToken(token), at |-> ak.clock]>>]

ValidateKeyCall(token) ==
    /\ ak.validating = <<>>
    /\ ak' = ValidateKeyCalled(token)
    /\ UNCHANGED <<ingestVars, fp, mp, errLog, pg>>

\* findOne answers and validateKey returns: false when no document matches,
\* else true. The update of lastUsedAt is sent and not awaited: it sets the
\* field, or it fails or finds the document gone, which nobody is told.
ValidateKeyFind ==
    /\ ak.validating # <<>>
    /\ LET v == Head(ak.validating)
           found == FindKey(v.tokenHash, v.at)
       IN  IF found = {}
           THEN ak' = [ak EXCEPT !.validating = <<>>,
                         !.lastValidate = <<[token |-> v.token, result |-> FALSE]>>]
           ELSE \E k \in found, updated \in BOOLEAN :
                   ak' = [ak EXCEPT !.validating = <<>>,
                            !.adminKeys[k].lastUsedAt = IF updated THEN <<v.at>> ELSE @,
                            !.lastValidate = <<[token |-> v.token, result |-> TRUE]>>]
    /\ UNCHANGED <<ingestVars, fp, mp, errLog, pg>>

\* revokeKey(keyId): updateOne({ _id: keyId, revokedAt: null },
\* { revokedAt: new Date() }); true when a document was modified.
RevokeKey(keyId) ==
    /\ LET modified ==
              /\ keyId \in 1..Len(ak.adminKeys)
              /\ ~ak.adminKeys[keyId].deleted
              /\ ak.adminKeys[keyId].revokedAt = <<>>
       IN  ak' = IF modified
                 THEN [ak EXCEPT !.adminKeys[keyId].revokedAt = <<ak.clock>>,
                                 !.revokedOk = @ \cup {keyId},
                                 !.lastRevoke = <<[keyId |-> keyId, result |-> TRUE]>>]
                 ELSE [ak EXCEPT !.lastRevoke = <<[keyId |-> keyId, result |-> FALSE]>>]
    /\ UNCHANGED <<ingestVars, fp, mp, errLog, pg>>

NextKeys ==
    \/ \E ttl \in TtlChoices : GenerateKey(ttl)
    \/ Tick
    \/ \E k \in 1..MaxKeys : ExpireKey(k)
    \/ \E token \in PresentedTokens : ValidateKeyCall(token)
    \/ ValidateKeyFind
    \/ \E keyId \in 1..MaxKeys : RevokeKey(keyId)

\* Nothing runs but AdminKeyService.
InitKeys ==
    /\ IngestIdle
    /\ UnitInit

SpecKeys == InitKeys /\ [][NextKeys]_vars

\* The stored, undeleted documents that hold the hash of the token.
StoredFor(token) ==
    {k \in 1..Len(ak.adminKeys) :
        ~ak.adminKeys[k].deleted /\ ak.adminKeys[k].tokenHash = hashToken(token)}

\* validateKey returns true in this step.
ValidateReturnsTrue ==
    /\ ValidateKeyFind
    /\ Head(ak'.lastValidate).result

\* revokeKey(keyId) returns true in this step.
RevokeReturnsTrue(keyId) ==
    /\ RevokeKey(keyId)
    /\ Head(ak'.lastRevoke).result

\* C20: validateKey returns true only for a token that starts with 'ak_',
\* whose hash is stored, whose expiresAt is strictly later than the time of
\* the call, and that has not been revoked; once revokeKey has returned true
\* for a key, validateKey never again returns true for its token and revokeKey
\* never again returns true for the key.
C20_ValidOnlyUnexpiredUnrevoked ==
    [][/\ ValidateReturnsTrue =>
             LET v == Head(ak.validating)
             IN  /\ SubSeq(v.token, 1, 3) = <<"a", "k", "_">>
                 /\ StoredFor(v.token) # {}
                 /\ \A k \in StoredFor(v.token) :
                       /\ ak.adminKeys[k].expiresAt > v.at
                       /\ ak.adminKeys[k].revokedAt = <<>>
                       /\ k \notin ak.revokedOk
        /\ \A keyId \in 1..MaxKeys :
              RevokeReturnsTrue(keyId) => keyId \notin ak.revokedOk]_vars

\* Key 1 was used with success, then revoked; after that its token was
\* refused and a second revokeKey returned false, the key being still stored
\* and short of its expiry.
C20_Witness ==
    /\ Len(ak.adminKeys) >= 1
    /\ 1 \in ak.revokedOk
    /\ ~ak.adminKeys[1].deleted
    /\ ak.adminKeys[1].lastUsedAt # <<>>
    /\ ak.adminKeys[1].revokedAt # <<>>
    /\ ak.lastValidate # <<>>
    /\ Head(ak.lastValidate).token = Token(1)
    /\ ~Head(ak.lastValidate).result
    /\ ak.adminKeys[1].expiresAt > ak.clock
    /\ ak.lastRevoke = <<[keyId |-> 1, result |-> FALSE]>>

\* ---------------------------------------------------------- AdminApiKeyGuard
\* request.headers['x-admin-key']: no header, an empty one, or a token.
PresentedHeaders == {Undefined, <<>>} \cup PresentedTokens

\* A guard that lets every validated request through, against which
\* GuardOutcome is told apart.
GuardOutcomeAlways(isValid) == "allowed"

\* if (!isValid) throw new UnauthorizedException(...); return true;
GuardOutcome(isValid) == IF isValid THEN "allowed" ELSE "unauthorized"

\* canActivate on a request: without a header it throws
\* UnauthorizedException at once; otherwise it calls validateKey with the
\* header and awaits the answer.
CanActivate(header) ==
    /\ ak.guard = <<>>
    /\ ak.validating = <<>>
    /\ ak' = IF ~Truthy(header)
             THEN [ak EXCEPT !.lastGuard =
                       <<[header |-> header, outcome |-> "unauthorized"]>>]
             ELSE [ValidateKeyCalled(header) EXCEPT !.guard = <<header>>]
    /\ UNCHANGED <<ingestVars, fp, mp, errLog, pg>>

\* validateKey has answered: canActivate returns true or throws.
CanActivateResume ==
    /\ ak.guard # <<>>
    /\ ak.validating = <<>>
    /\ ak' = [ak EXCEPT !.guard = <<>>,
                !.lastGuard =
                   <<[header |-> Head(ak.guard),
                      outcome |-> GuardOutcome(Head(ak.lastValidate).result)]>>]
    /\ UNCHANGED <<ingestVars, fp, mp, errLog, pg>>

NextGuard ==
    \/ \E ttl \in TtlChoices : GenerateKey(ttl)
    \/ Tick
    \/ \E k \in 1..MaxKeys : ExpireKey(k)
    \/ \E header \in PresentedHeaders : CanActivate(header)
    \/ ValidateKeyFind
    \/ CanActivateResume
    \/ \E keyId \in 1..MaxKeys : RevokeKey(keyId)

\* Requests come to the guard while keys are generated, revoked and expire.
SpecGuard == InitKeys /\ [][NextGuard]_vars

\* canActivate ends in this step.
GuardEnds ==
    \/ ak.guard # <<>> /\ ak'.guard = <<>>
    \/ ak.guard = <<>> /\ ak'.guard = <<>> /\ ak'.lastGuard # ak.lastGuard

\* C21: canActivate lets a request through only when the X-Admin-Key header
\* is there and validateKey returned true for it; without the header it
\* rejects the request and validateKey is not called; when validateKey
\* returned false it rejects the request.
C21_GuardLetsOnlyValidKeys ==
    [][GuardEnds =>
         LET g == Head(ak'.lastGuard)
         IN  /\ g.outcome = "allowed" =>
                   /\ Truthy(g.header)
                   /\ ak.guard = <<g.header>>
                   /\ ak.lastValidate = <<[token |-> g.header, result |-> TRUE]>>
             /\ ~Truthy(g.header) =>
                   /\ g.outcome = "unauthorized"
                   /\ ak.guard = <<>>
                   /\ ak'.validating = ak.validating
                   /\ ak'.lastValidate = ak.lastValidate
             /\ (ak.guard # <<>> /\ ~Head(ak.lastValidate).result) =>
                   g.outcome = "unauthorized"]_vars

\* A request with the token of key 1 was let through, the key having been
\* found by validateKey.
C21_Witness ==
    /\ ak.guard = <<>>
    /\ ak.lastGuard = <<[header |-> Token(1), outcome |-> "allowed"]>>
    /\ ak.lastValidate = <<[token |-> Token(1), result |-> TRUE]>>
    /\ Len(ak.adminKeys) >= 1

\* ------------------------------------------------- the accumulator's result
\* The records of acc that have the identity of r.
WithIdentityOf(acc, r) ==
    {i \in 1..Len(acc) :
        ~idThrows(acc[i]) /\ generateCompanyId(acc[i]) = generateCompanyId(r)}

\* C22: what fetchAllPages returns holds exactly one raw record for every
\* identity (generateCompanyId: name and headquarters) that a fetched page
\* held; two fetched records of one name and two headquarters are both kept.
C22_AccumulatorKeyedByIdentity ==
    \A p \in Procs :
        pc[p] = "fetched" =>
            \A r \in aud[p].served :
                ~idThrows(r) =>
                    Cardinality(WithIdentityOf(client[p].accumulated, r)) = 1

IsPrefix(s, t) == Len(s) <= Len(t) /\ SubSeq(t, 1, Len(s)) = s

\* The part of a page that is merged: the records before the first one whose
\* name is not a string.
RECURSIVE Mergeable(_)
Mergeable(page) ==
    IF page = <<>> \/ ~IsString(Head(page).name) THEN <<>>
    ELSE <<Head(page)>> \o Mergeable(Tail(page))

\* The places of page that hold the first record seen for a key: no record
\* of acc and no earlier record of page has the key.
FirstSeenAt(acc, page) ==
    {i \in 1..Len(page) :
        /\ \A j \in 1..Len(acc) : AccKey(acc[j]) # AccKey(page[i])
        /\ \A j \in 1..(i - 1) : AccKey(page[j]) # AccKey(page[i])}

\* The records of page at the places of I, in the order of the page.
RECURSIVE Picked(_, _, _)
Picked(page, I, i) ==
    IF i > Len(page) THEN <<>>
    ELSE (IF i \in I THEN <<page[i]>> ELSE <<>>) \o Picked(page, I, i + 1)

\* The call of fetchAllPages of invocation p goes on over this step.
CallGoesOn(p) ==
    /\ pc[p] \in {"fetchFirst", "fetchNext"}
    /\ pc'[p] \in {"fetchFirst", "fetchNext", "fetched"}

\* A page was fetched and merged in this step of invocation p: the
\* accumulator gained the first record seen for each key it did not have.
MergedFirstSeen(p) ==
    \E page \in Pages(IF pc[p] = "fetchFirst" THEN 1 ELSE client[p].pageNum) :
        /\ aud'[p].served = aud[p].served \cup Range(page)
        /\ client'[p].accumulated =
              client[p].accumulated \o
                 Picked(Mergeable(page),
                        FirstSeenAt(client[p].accumulated, Mergeable(page)), 1)

\* C23: during one call of fetchAllPages the accumulator is never reset and
\* only grows: every step keeps the records it holds, whatever the pass, and
\* a merged page adds the first record seen for each key that was missing; a
\* later record of a key that is held is dropped.
C23_AccumulatorOnlyGrows ==
    [][\A p \in Procs :
          CallGoesOn(p) =>
              /\ IsPrefix(client[p].accumulated, client'[p].accumulated)
              /\ faults' = faults => MergedFirstSeen(p)]_vars

\* A call in its second pass or later has met a record whose key it held:
\* it kept the record seen first and dropped the later one.
C23_Witness ==
    \E p \in Procs :
        /\ pc[p] = "fetched"
        /\ client[p].attempt >= 2
        /\ \E r \in aud[p].served :
              /\ r \notin Range(client[p].accumulated)
              /\ AccHas(client[p].accumulated, r)
              /\ client[p].accumulated[1].hq = <<"y">>

\* ------------------------------------------- fetchAllPages, request by request
\* The promise of fetchPage(n) is taken as settled whether it is or not: a
\* loop that does not await, against which Settled is told apart.
SettledAlways(settled, n) == TRUE

\* await this.fetchPage(n): the loop goes on once the promise of the call is
\* settled, fulfilled or rejected.
Settled(settled, n) == \E r \in settled : r.page = n

\* fetchPage(n) is called: its first HTTP request leaves.
Requested(n) ==
    [pg EXCEPT !.inflight = @ \cup {[page |-> n, attemptNumber |-> 1]},
               !.issued = Append(@, n)]

\* Where the loop goes after page pageNum - 1: the delay before the next
\* page, or the test of convergence and then the return or the delay before
\* the next pass.
AfterPage(g) ==
    IF g.pageNum <= g.totalPages THEN "sleepPage"
    ELSE IF Converged(g.size, g.totalHits) THEN "returned"
    ELSE "sleepPass"

\* The head of the while loop, at the call and after the delay between two
\* passes: attempt++ and fetchPage(1), or the return when the attempts are
\* spent.
PassHead ==
    /\ pg.pc \in {"idle", "sleepPass"}
    /\ pg' = IF pg.attempt < maxAccumulationAttempts
             THEN [pg EXCEPT !.pc = "awaitFirst", !.attempt = @ + 1,
                             !.inflight = @ \cup {[page |-> 1, attemptNumber |-> 1]},
                             !.settled = {}, !.issued = <<1>>]
             ELSE [pg EXCEPT !.pc = "returned"]
    /\ UNCHANGED <<ingestVars, fp, mp, errLog, ak>>

\* The upstream answers an HTTP request of a fetchPage call: the call is
\* fulfilled, or it is rejected for good, or p-retry sends the request again.
HttpAnswer ==
    /\ \E r \in pg.inflight, resp \in Responses :
          LET e == fetchWithRetry(resp)
              rest == pg.inflight \ {r}
          IN  pg' = IF e = <<>>
                    THEN [pg EXCEPT !.inflight = rest,
                             !.settled = @ \cup {[page |-> r.page, ok |-> resp = "ok"]}]
                    ELSE IF pRetryStops(Head(e)) \/ ~pRetryRetries(r.attemptNumber)
                         THEN [pg EXCEPT !.inflight = rest,
                                  !.settled = @ \cup {[page |-> r.page, ok |-> FALSE]}]
                         ELSE [pg EXCEPT !.inflight =
                                  rest \cup {[page |-> r.page,
                                              attemptNumber |-> r.attemptNumber + 1]}]
    /\ UNCHANGED <<ingestVars, fp, mp, errLog, ak>>

\* fetchPage(1) is settled. Rejected, it ends fetchAllPages: no try is around
\* it. Fulfilled, it gives the totals and its companies are merged.
ResumeFirst ==
    /\ pg.pc = "awaitFirst"
    /\ Settled(pg.settled, 1)
    /\ IF [page |-> 1, ok |-> TRUE] \in pg.settled
       THEN \E size \in pg.size..MaxEntities :
               LET g == [pg EXCEPT !.totalHits = MaxEntities, !.totalPages = NumPages,
                                   !.size = size, !.pageNum = 2]
               IN  pg' = [g EXCEPT !.pc = AfterPage(g)]
       ELSE pg' = [pg EXCEPT !.pc = "threw"]
    /\ UNCHANGED <<ingestVars, fp, mp, errLog, ak>>

\* The delay before a page of the for loop ends: fetchPage(pageNum) is
\* called.
SleepPageEnds ==
    /\ pg.pc = "sleepPage"
    /\ pg' = [Requested(pg.pageNum) EXCEPT !.pc = "awaitNext"]
    /\ UNCHANGED <<ingestVars, fp, mp, errLog, ak>>

\* fetchPage(pageNum) is settled: its companies are merged, or the catch of
\* the for loop logs the failure; then pageNum++.
ResumeNext ==
    /\ pg.pc = "awaitNext"
    /\ Settled(pg.settled, pg.pageNum)
    /\ \E size \in IF [page |-> pg.pageNum, ok |-> TRUE] \in pg.settled
                    THEN pg.size..MaxEntities ELSE {pg.size} :
          LET g == [pg EXCEPT !.size = size, !.pageNum = @ + 1]
          IN  pg' = [g EXCEPT !.pc = AfterPage(g)]
    /\ UNCHANGED <<ingestVars, fp, mp, errLog, ak>>

NextPass ==
    \/ PassHead
    \/ HttpAnswer
    \/ ResumeFirst
    \/ SleepPageEnds
    \/ ResumeNext

\* Nothing runs but one call of fetchAllPages.
InitPass ==
    /\ IngestIdle
    /\ UnitInit

SpecPass == InitPass /\ [][NextPass]_vars

\* The pages requested in the pass are 1, 2, ... in this order, as far as
\* the pass has come, and all the reported pages once the pass is through.
RequestedInOrder ==
    /\ \A i \in 1..Len(pg.issued) : pg.issued[i] = i
    /\ pg.pc \in {"sleepPage", "awaitNext", "sleepPass", "returned"} =>
          Len(pg.issued) <= pg.totalPages
    /\ pg.pc \in {"sleepPass", "returned"} /\ pg.issued # <<>> =>
          Len(pg.issued) = pg.totalPages

\* A request leaves in this step: none is under way, and the request of the
\* page before it in the pass is settled.
RequestLeaves ==
    pg'.issued # pg.issued =>
        /\ pg.inflight = {}
        /\ Len(pg'.issued) > 1 => Settled(pg.settled, pg'.issued[Len(pg'.issued) - 1])

\* C24: within one pass the pages are requested one at a time in the order
\* 1, 2, ..., pagesReported: the request of a page leaves only once the
\* request of the page before it succeeded or failed for good, and no two
\* requests are ever under way together.
C24_PagesOneAtATimeInOrder ==
    /\ [](Cardinality(pg.inflight) <= 1 /\ RequestedInOrder)
    /\ [][RequestLeaves]_vars

\* In the second pass, page 1 being through, the request of page 2 is under
\* way at its second HTTP attempt and it is the only one.
C24_Witness ==
    /\ pg.attempt = 2
    /\ pg.issued = <<1, 2>>
    /\ pg.inflight = {[page |-> 2, attemptNumber |-> 2]}
    /\ [page |-> 1, ok |-> TRUE] \in pg.settled

\* ------------------------------------------------------ update of a record
\* C25: when upsertCompany has updated a stored record, the record equals
\* the incoming one on every normalized field and on provenance; an optional
\* field stored before and undefined in the incoming record is undefined
\* afterwards.
C25_UpdateReplacesEveryField ==
    (lastUpsert # <<>> /\ Head(lastUpsert).outcome = "updated") =>
        LET u == Head(lastUpsert)
        IN  /\ Len(u.docAfter) = 1
            /\ \A f \in DtoFields : u.docAfter[1][f] = u.dto[f]

\* ------------------------------------------------- sourceMeta of the run
\* C26: once ingestAll got the result of fetchAllPages and returned, the
\* stored run's sourceMeta holds the total and the page count the source
\* reported and the number of accumulation attempts, each equal to the value
\* of the IngestionResult.
C26_RunHoldsSourceMeta ==
    \A p \in Procs :
        (result[p] # <<>> /\ Head(result[p]).sourceMeta.accumulationAttempts >= 1) =>
            LET r == Head(result[p])
                stored == runs[r.runId].sourceMeta
            IN  \A f \in {"totalFromSource", "pagesFromSource", "accumulationAttempts"} :
                    f \in DOMAIN stored /\ stored[f] = r.sourceMeta[f]

\* --------------------------------------------- two runs and one new company
\* The counters of invocation p, running or returned.
CountsOf(p) == IF result[p] # <<>> THEN Head(result[p]).counts ELSE ing[p].counts

\* The companyIds invocation p passed to upsertCompany.
SentIds(p) == {dto.companyId : dto \in aud[p].sent}

\* Both invocations have returned, and the one record each of them had was
\* company c, which the store did not hold before them.
BothUpserted(c) ==
    \A p \in Procs :
        /\ result[p] # <<>>
        /\ Head(result[p]).uniqueThisRun = 1
        /\ SentIds(p) = {c}

AccumulateAndDeduplicate ==
    /\ mp.pc = "input"
    /\ LET m == MergePage(<<>>, <<mp.a, mp.b>>)
           threw == m.threw \/ dedupeThrows(m.acc)
       IN  mp' = [pc |-> "deduped", a |-> mp.a, b |-> mp.b, threw |-> threw,
                  fetched |-> Len(m.acc),
                  uniqueThisRun |->
                     IF threw THEN 0 ELSE Len(deduplicateCompanies(m.acc, <<>>))]
    /\ UNCHANGED <<ingestVars, fp, errLog, ak, pg>>

NextDedup == AccumulateAndDeduplicate

SpecDedup == InitMap /\ [][NextDedup]_vars

\* C29: in every completed result uniqueThisRun equals counts.fetched: the
\* de-duplication by companyId removes no record of what the accumulator
\* returned.
C29_DeduplicationRemovesNothing ==
    (mp.pc = "deduped" /\ ~mp.threw) => mp.uniqueThisRun = mp.fetched

\* -------------------------------------------- a failure of addError in the loop
\* C30: when addError fails while ingestAll handles a failed record, the
\* loop goes on with the records that remain, or to the completed result
\* when none remains: the failure does not reach the catch of ingestAll.
C30_AddErrorFailureTolerated ==
    [][\A p \in Procs :
          (pc[p] = "addError" /\ pc'[p] # "addError") =>
              pc'[p] \in {"map", "finalize"}]_vars

====
